---- MODULE Spec2Model ----
(***************************************************************************)
(* Model of mpml (Meta-Programming Mini Library): the typelist algebra of  *)
(* include/mpml.h, the get_ancestors linearizer (versions 1.1 and 1.0) and *)
(* the __COUNTER__ driven registry behind MPML_DECLARE / MPML_ADD /        *)
(* MPML_TYPES / MPML_CONTAINS.                                             *)
(*                                                                         *)
(* A typelist<TS...> is a sequence of class names.  A translation unit is  *)
(* a sequence of macro invocations; every invocation that expands          *)
(* __COUNTER__ consumes one point of the single preprocessor counter.      *)
(***************************************************************************)
EXTENDS Integers, Sequences, FiniteSets, TLC

VARIABLES
    bases,      \* class declarations: class name -> set of direct base classes
    counter,    \* next value of __COUNTER__
    idx,        \* registry name -> the _idx of its MPML_DECLARE, NotDeclared before
    history,    \* registry name -> (point -> typelist): _name##_mpml_history<IDX>
    added,      \* registry name -> the types passed to MPML_ADD so far, in order
    script,     \* MPML_ADD lines of the translation unit still to be compiled
    op,         \* the macro / metafunction evaluated last
    reg,        \* the registry name it was evaluated on
    target,     \* its type argument
    universe,   \* the typelist MPML_TYPES yielded to it
    chain,      \* get_ancestors_t<target, universe>   (include/mpml.h, v1.1)
    found,      \* MPML_CONTAINS(target, reg)
    point,      \* the integer argument (_idx, IDX, N) it was evaluated with
    value,      \* the ::value or ::type of the metafunction evaluated last
    late,       \* <<registry name, point>>: _mpml_history<point> specialised after
                \* _mpml_read<point> was instantiated without it
    asserts,    \* messages of the static_asserts that failed in the metafunction
                \* evaluated last
    cmp         \* the comparator template handed to get_the_best: the pairs
                \* <<T1, T2>> whose CMP<T1, T2>::value is true

vars == <<bases, counter, idx, history, added, script, op, reg, target, universe, chain,
          found, point, value, late, asserts,
          cmp>>

----------------------------------------------------------------------------
(* Bounds *)

MaxPoint == 5       \* __COUNTER__ values used by a free translation unit
MaxDocPoint == 28   \* __COUNTER__ values used by the documented translation units
MaxRegPoint == 6    \* __COUNTER__ values used by a unit with two registries
MaxDirectPoint == 4 \* __COUNTER__ values used by a unit that names the internals
MaxLen == 4         \* length of the typelists the metafunctions are applied to
MaxCmpLen == 3      \* length of the typelists tried with every comparator

NotDeclared == -1
NoType == "-"

----------------------------------------------------------------------------
(* typelist algebra *)

emptytypelist == <<>>

\* find whose not-found value forgets N
RECURSIVE find_forget_n(_, _, _)
find_forget_n(TYPE, TYPELIST, N) ==
    IF TYPELIST = emptytypelist THEN -1
    ELSE IF Head(TYPELIST) = TYPE THEN 0
    ELSE 1 + find_forget_n(TYPE, Tail(TYPELIST), N)

\* find that counts positions from 1
RECURSIVE find_one_based(_, _, _)
find_one_based(TYPE, TYPELIST, N) ==
    IF TYPELIST = emptytypelist THEN -(N + 1)
    ELSE IF Head(TYPELIST) = TYPE THEN 1
    ELSE 1 + find_one_based(TYPE, Tail(TYPELIST), N)

RECURSIVE find(_, _, _)
find(TYPE, TYPELIST, N) ==
    IF TYPELIST = emptytypelist THEN -(N + 1)
    ELSE IF Head(TYPELIST) = TYPE THEN 0
    ELSE 1 + find(TYPE, Tail(TYPELIST), N)

find_v(TYPE, TYPELIST) == find(TYPE, TYPELIST, Len(TYPELIST))

\* contains that looks at the first type only
contains_v_front(TYPE, TYPELIST) == find_v(TYPE, TYPELIST) = 0

contains_v(TYPE, TYPELIST) == find_v(TYPE, TYPELIST) # -1

concat(TL1, TL2) == TL1 \o TL2

RECURSIVE invert(_)
invert(TYPELIST) ==
    IF TYPELIST = emptytypelist THEN emptytypelist
    ELSE concat(invert(Tail(TYPELIST)), <<Head(TYPELIST)>>)

push_front(TYPE, TYPELIST) == <<TYPE>> \o TYPELIST

\* push_back that puts TYPE in front
push_back_in_front(TYPE, TYPELIST) == <<TYPE>> \o TYPELIST

push_back(TYPE, TYPELIST) == TYPELIST \o <<TYPE>>

pop_front(TYPELIST) ==
    IF TYPELIST = emptytypelist THEN emptytypelist ELSE Tail(TYPELIST)

pop_back(TYPELIST) == pop_front(invert(TYPELIST))

EmptyTypelist == "Empty typelist"
OutOfBounds == "Out of bounds"

\* at that counts positions from 1
RECURSIVE at_one_based(_, _)
at_one_based(IDX, TYPELIST) ==
    IF IDX <= 1
        THEN IF TYPELIST = emptytypelist THEN EmptyTypelist ELSE Head(TYPELIST)
        ELSE IF TYPELIST = emptytypelist THEN OutOfBounds
             ELSE at_one_based(IDX - 1, Tail(TYPELIST))

RECURSIVE at(_, _)
at(IDX, TYPELIST) ==
    IF IDX = 0
        THEN IF TYPELIST = emptytypelist THEN EmptyTypelist ELSE Head(TYPELIST)
        ELSE IF TYPELIST = emptytypelist THEN OutOfBounds
             ELSE at(IDX - 1, Tail(TYPELIST))

\* the messages of the static_asserts that fail while at<IDX, TYPELIST> is
\* instantiated: at<0, typelist<>> has the "Empty typelist" assertion only,
\* at<IDX, typelist<>> the "Out of bounds" one, and at<IDX, typelist<TYPE, TS...>>
\* instantiates at<IDX - 1, typelist<TS...>> before its own assertion
RECURSIVE at_asserts(_, _)
at_asserts(IDX, TYPELIST) ==
    IF IDX = 0
        THEN IF TYPELIST = emptytypelist THEN {EmptyTypelist} ELSE {}
        ELSE IF TYPELIST = emptytypelist THEN {OutOfBounds}
             ELSE at_asserts(IDX - 1, Tail(TYPELIST)) \cup
                  (IF IDX < 1 + Len(Tail(TYPELIST)) THEN {} ELSE {OutOfBounds})

\* size_t arithmetic. size_t has 64 bits; the model keeps the wrap-around with
\* the modulus 2^30, which every size and index of the model is far below.
SizeModulus == 2^30

size_minus_one(TYPELIST) == (Len(TYPELIST) - 1) % SizeModulus

\* the IDX of back_t: TYPELIST::size - 1
back_index(TYPELIST) == size_minus_one(TYPELIST)

back(TYPELIST) == at(back_index(TYPELIST), TYPELIST)

front(TYPELIST) == at(0, TYPELIST)

\* remove_all that stops after the first occurrence
RECURSIVE remove_first(_, _)
remove_first(TYPE, TYPELIST) ==
    IF TYPELIST = emptytypelist THEN emptytypelist
    ELSE IF TYPE = Head(TYPELIST)
        THEN Tail(TYPELIST)
        ELSE concat(<<Head(TYPELIST)>>, remove_first(TYPE, Tail(TYPELIST)))

RECURSIVE remove_all(_, _)
remove_all(TYPE, TYPELIST) ==
    IF TYPELIST = emptytypelist THEN emptytypelist
    ELSE IF TYPE = Head(TYPELIST)
        THEN remove_all(TYPE, Tail(TYPELIST))
        ELSE concat(<<Head(TYPELIST)>>, remove_all(TYPE, Tail(TYPELIST)))

\* remove_duplicates that keeps the last occurrence of each type
RECURSIVE remove_duplicates_keep_last(_)
remove_duplicates_keep_last(TYPELIST) ==
    IF TYPELIST = emptytypelist THEN emptytypelist
    ELSE IF contains_v(Head(TYPELIST), Tail(TYPELIST))
        THEN remove_duplicates_keep_last(Tail(TYPELIST))
        ELSE concat(<<Head(TYPELIST)>>, remove_duplicates_keep_last(Tail(TYPELIST)))

\* remove_duplicates that only drops a type repeated right after itself
RECURSIVE remove_duplicates_adjacent(_)
remove_duplicates_adjacent(TYPELIST) ==
    IF TYPELIST = emptytypelist THEN emptytypelist
    ELSE IF Len(TYPELIST) = 1 THEN TYPELIST
    ELSE IF Head(TYPELIST) = Head(Tail(TYPELIST))
        THEN remove_duplicates_adjacent(Tail(TYPELIST))
        ELSE concat(<<Head(TYPELIST)>>, remove_duplicates_adjacent(Tail(TYPELIST)))

\* remove_duplicates that drops one later occurrence per type it meets
RECURSIVE remove_duplicates_drop_one(_)
remove_duplicates_drop_one(TYPELIST) ==
    IF TYPELIST = emptytypelist THEN emptytypelist
    ELSE IF Len(TYPELIST) = 1 THEN TYPELIST
    ELSE IF contains_v(Head(TYPELIST), Tail(TYPELIST))
        THEN concat(<<Head(TYPELIST)>>,
                    remove_duplicates_drop_one(remove_first(Head(TYPELIST), Tail(TYPELIST))))
        ELSE concat(<<Head(TYPELIST)>>, remove_duplicates_drop_one(Tail(TYPELIST)))

RECURSIVE remove_duplicates(_)
remove_duplicates(TYPELIST) ==
    IF TYPELIST = emptytypelist THEN emptytypelist
    ELSE IF Len(TYPELIST) = 1 THEN TYPELIST
    ELSE IF contains_v(Head(TYPELIST), Tail(TYPELIST))
        THEN concat(<<Head(TYPELIST)>>,
                    remove_duplicates(remove_all(Head(TYPELIST), Tail(TYPELIST))))
        ELSE concat(<<Head(TYPELIST)>>, remove_duplicates(Tail(TYPELIST)))

\* TRAIT is a function class -> BOOLEAN (the ::value of TRAIT<TYPE>)
RECURSIVE get_filtered(_, _)
get_filtered(TYPELIST, TRAIT) ==
    IF TYPELIST = emptytypelist THEN emptytypelist
    ELSE LET remaining == get_filtered(Tail(TYPELIST), TRAIT)
         IN  IF TRAIT[Head(TYPELIST)]
                THEN push_front(Head(TYPELIST), remaining)
                ELSE remaining

\* get_the_best with the arguments of CMP exchanged
RECURSIVE get_the_best_swapped(_, _)
get_the_best_swapped(TYPELIST, CMP) ==
    IF Len(TYPELIST) = 1 THEN TYPELIST[1]
    ELSE LET first_type     == at(0, TYPELIST)
             remaining_best == get_the_best_swapped(pop_front(TYPELIST), CMP)
         IN  IF CMP[<<remaining_best, first_type>>]
                THEN first_type
                ELSE remaining_best

\* get_the_best that keeps first_type unless remaining_best beats it
RECURSIVE get_the_best_keep_first(_, _)
get_the_best_keep_first(TYPELIST, CMP) ==
    IF Len(TYPELIST) = 1 THEN TYPELIST[1]
    ELSE LET first_type     == at(0, TYPELIST)
             remaining_best == get_the_best_keep_first(pop_front(TYPELIST), CMP)
         IN  IF CMP[<<remaining_best, first_type>>]
                THEN remaining_best
                ELSE first_type

\* get_the_best that never looks past first_type
RECURSIVE get_the_best_first(_, _)
get_the_best_first(TYPELIST, CMP) ==
    IF Len(TYPELIST) = 1 THEN TYPELIST[1]
    ELSE LET first_type     == at(0, TYPELIST)
             remaining_best == get_the_best_first(pop_front(TYPELIST), CMP)
         IN  IF CMP[<<first_type, first_type>>]
                THEN first_type
                ELSE remaining_best

\* CMP is a function <<T1, T2>> -> BOOLEAN (the ::value of CMP<T1, T2>)
RECURSIVE get_the_best(_, _)
get_the_best(TYPELIST, CMP) ==
    IF Len(TYPELIST) = 1 THEN TYPELIST[1]
    ELSE LET first_type     == at(0, TYPELIST)
             remaining_best == get_the_best(pop_front(TYPELIST), CMP)
         IN  IF CMP[<<first_type, remaining_best>>]
                THEN first_type
                ELSE remaining_best

----------------------------------------------------------------------------
(* std::is_base_of over the declared classes: true for a class and itself *)
(* and for every direct or indirect base.                                  *)

Classes == DOMAIN bases

\* is_base_of that is false for a class and itself
RECURSIVE is_base_of_strict(_, _)
is_base_of_strict(B, D) ==
    \E p \in bases[D] : p = B \/ is_base_of_strict(B, p)

RECURSIVE is_base_of(_, _)
is_base_of(B, D) ==
    \/ B = D
    \/ \E p \in bases[D] : is_base_of(B, p)

----------------------------------------------------------------------------
(* get_ancestors, version 1.1 (include/mpml.h) *)

\* details::get_ancestors that builds DESTLIST with push_front
RECURSIVE details_get_ancestors_front(_, _)
details_get_ancestors_front(SRCLIST, DESTLIST) ==
    IF SRCLIST = emptytypelist THEN DESTLIST
    ELSE LET CMP == [p \in Classes \X Classes |-> is_base_of(p[1], p[2])]
             most_ancient == get_the_best(SRCLIST, CMP)
             not_most_ancient_t == [T \in Classes |-> ~(most_ancient = T)]
             all_but_most_ancient == get_filtered(SRCLIST, not_most_ancient_t)
         IN  details_get_ancestors_front(all_but_most_ancient,
                                         push_front(most_ancient, DESTLIST))

\* details::get_ancestors that hands SRCLIST to get_the_best back to front
RECURSIVE details_get_ancestors_inverted(_, _)
details_get_ancestors_inverted(SRCLIST, DESTLIST) ==
    IF SRCLIST = emptytypelist THEN DESTLIST
    ELSE LET CMP == [p \in Classes \X Classes |-> is_base_of(p[1], p[2])]
             most_ancient == get_the_best(invert(SRCLIST), CMP)
             not_most_ancient_t == [T \in Classes |-> ~(most_ancient = T)]
             all_but_most_ancient == get_filtered(SRCLIST, not_most_ancient_t)
         IN  details_get_ancestors_inverted(all_but_most_ancient,
                                            push_back(most_ancient, DESTLIST))

RECURSIVE details_get_ancestors(_, _)
details_get_ancestors(SRCLIST, DESTLIST) ==
    IF SRCLIST = emptytypelist THEN DESTLIST
    ELSE LET CMP == [p \in Classes \X Classes |-> is_base_of(p[1], p[2])]
             most_ancient == get_the_best(SRCLIST, CMP)
             not_most_ancient_t == [T \in Classes |-> ~(most_ancient = T)]
             all_but_most_ancient == get_filtered(SRCLIST, not_most_ancient_t)
         IN  details_get_ancestors(all_but_most_ancient,
                                   push_back(most_ancient, DESTLIST))

\* get_ancestors without the is_base_of filter
get_ancestors_unfiltered(TYPE, TYPELIST) ==
    details_get_ancestors(remove_all(TYPE, TYPELIST), emptytypelist)

\* get_ancestors without remove_all
get_ancestors_keep_target(TYPE, TYPELIST) ==
    LET trait == [U \in Classes |-> is_base_of(U, TYPE)]
        filtered_typelist == get_filtered(TYPELIST, trait)
    IN  details_get_ancestors(filtered_typelist, emptytypelist)

get_ancestors(TYPE, TYPELIST) ==
    LET trait == [U \in Classes |-> is_base_of(U, TYPE)]
        filtered_typelist == get_filtered(remove_all(TYPE, TYPELIST), trait)
    IN  details_get_ancestors(filtered_typelist, emptytypelist)

(* get_ancestors with its predicate as a parameter: the same templates with *)
(* the aliases `CMP` (mpml.h 307-308) and `trait` (mpml.h 291-292) bound to  *)
(* PRED instead of std::is_base_of. PRED is a function <<T1, T2>> -> BOOLEAN. *)

\* details::get_ancestors that drops only the first type of SRCLIST per round
RECURSIVE details_get_ancestors_with_pop(_, _, _)
details_get_ancestors_with_pop(SRCLIST, DESTLIST, PRED) ==
    IF SRCLIST = emptytypelist THEN DESTLIST
    ELSE LET most_ancient == get_the_best(SRCLIST, PRED)
             all_but_most_ancient == pop_front(SRCLIST)
         IN  details_get_ancestors_with_pop(all_but_most_ancient,
                                            push_back(most_ancient, DESTLIST), PRED)

RECURSIVE details_get_ancestors_with(_, _, _)
details_get_ancestors_with(SRCLIST, DESTLIST, PRED) ==
    IF SRCLIST = emptytypelist THEN DESTLIST
    ELSE LET most_ancient == get_the_best(SRCLIST, PRED)
             not_most_ancient_t == [T \in Classes |-> ~(most_ancient = T)]
             all_but_most_ancient == get_filtered(SRCLIST, not_most_ancient_t)
         IN  details_get_ancestors_with(all_but_most_ancient,
                                        push_back(most_ancient, DESTLIST), PRED)

\* get_ancestors_with that leaves TYPE among the candidates
get_ancestors_with_target(TYPE, TYPELIST, PRED) ==
    LET trait == [U \in Classes |-> PRED[<<U, TYPE>>]]
        filtered_typelist == get_filtered(TYPELIST, trait)
    IN  details_get_ancestors_with(filtered_typelist, emptytypelist, PRED)

get_ancestors_with(TYPE, TYPELIST, PRED) ==
    LET trait == [U \in Classes |-> PRED[<<U, TYPE>>]]
        filtered_typelist == get_filtered(remove_all(TYPE, TYPELIST), trait)
    IN  details_get_ancestors_with(filtered_typelist, emptytypelist, PRED)

(* get_ancestors, version 1.0: no remove_all before the is_base_of filter *)

\* version 1.0 with a filter that is false for TYPE itself
get_ancestors_v10_strict(TYPE, TYPELIST) ==
    LET base_of_T == [U \in Classes |-> U # TYPE /\ is_base_of(U, TYPE)]
        src_list == get_filtered(TYPELIST, base_of_T)
    IN  details_get_ancestors(src_list, emptytypelist)

get_ancestors_v10(TYPE, TYPELIST) ==
    LET base_of_T == [U \in Classes |-> is_base_of(U, TYPE)]
        src_list == get_filtered(TYPELIST, base_of_T)
    IN  details_get_ancestors(src_list, emptytypelist)

----------------------------------------------------------------------------
(* The registry: _name##_mpml_history and _name##_mpml_read *)

NoHistory == [p \in {} |-> emptytypelist]

is_defined_v(name, IDX) == IDX \in DOMAIN history[name]

IllFormed == "ill-formed"

\* _mpml_read that does not go back to the previous entries
mpml_read_nowalk(name, IDX) ==
    IF is_defined_v(name, IDX) THEN history[name][IDX] ELSE emptytypelist

\* _mpml_read that looks at the previous point only
mpml_read_one_back(name, IDX) ==
    IF is_defined_v(name, IDX) THEN history[name][IDX]
    ELSE IF is_defined_v(name, IDX - 1) THEN history[name][IDX - 1]
    ELSE emptytypelist

\* conditional_t names both of its alternatives, so _mpml_read<IDX, false>
\* always instantiates _mpml_read<IDX - 1>; below point 0 the size_t index
\* wraps and the instantiation never ends.
RECURSIVE mpml_read(_, _)
mpml_read(name, IDX) ==
    IF is_defined_v(name, IDX) THEN history[name][IDX]
    ELSE IF IDX = 0 THEN IllFormed
    ELSE LET prev == mpml_read(name, IDX - 1)
         IN  IF prev = IllFormed THEN IllFormed
             ELSE IF IDX > idx[name] THEN prev ELSE emptytypelist

\* MPML_TYPES(_name) at the moment __COUNTER__ is c
MPML_TYPES(name, c) == mpml_read(name, c - 1)

----------------------------------------------------------------------------
(* Class hierarchies *)

SmallClasses == <<"H", "I", "J", "K">>

\* every set of class declarations over SmallClasses in which a class derives
\* only from classes declared before it
Hierarchies ==
    { b \in [ {SmallClasses[i] : i \in 1..Len(SmallClasses)}
                -> SUBSET {SmallClasses[i] : i \in 1..Len(SmallClasses)} ] :
        \A i \in 1..Len(SmallClasses) :
            b[SmallClasses[i]] \subseteq {SmallClasses[j] : j \in 1..(i - 1)} }

DocClasses == {"A", "B", "C", "D", "E", "T", "F", "G", "H", "I", "J", "K",
               "L", "Z", "W", "ZZ"}

DocBases ==
    [c \in DocClasses |->
        CASE c = "B" -> {"A"}
          [] c = "C" -> {"A"}
          [] c = "T" -> {"B"}
          [] c = "D" -> {"C"}
          [] c = "E" -> {"C"}
          [] c = "G" -> {"F"}
          [] c = "H" -> {"F"}
          [] c = "L" -> {"G"}
          [] c = "Z" -> {"G"}
          [] c = "I" -> {"H"}
          [] c = "J" -> {"H"}
          [] c = "K" -> {"I", "J"}
          [] c = "W" -> {"K"}
          [] OTHER -> {}]

\* the MPML_ADD lines of the example (grouped) and of the embedded unit test
ExampleAdds == <<"C", "D", "E", "T", "B", "A", "A", "A", "F", "G", "L", "Z",
                 "H", "I", "J", "K", "W">>

UnitTestAdds == <<"C", "D", "Z", "H", "I", "I", "E", "T", "L", "B", "A", "J",
                  "A", "G", "K", "A", "F", "W">>

----------------------------------------------------------------------------
(* Translation units *)

InitWith(b, s) ==
    /\ bases = b
    /\ script = s
    /\ counter = 0
    /\ idx = [n \in {"REG_TYPES", "MPML_TEST_TL"} |-> NotDeclared]
    /\ history = [n \in {"REG_TYPES", "MPML_TEST_TL"} |-> NoHistory]
    /\ added = [n \in {"REG_TYPES", "MPML_TEST_TL"} |-> <<>>]
    /\ op = "none"
    /\ reg = NoType
    /\ target = NoType
    /\ universe = emptytypelist
    /\ chain = emptytypelist
    /\ found = FALSE
    /\ point = 0
    /\ value = 0
    /\ late = {}
    /\ asserts = {}
    /\ cmp = {}

\* MPML_DECLARE(_name)
Declare(name, max) ==
    /\ counter < max
    /\ idx[name] = NotDeclared
    /\ idx' = [idx EXCEPT ![name] = counter]
    /\ history' = [history EXCEPT ![name] = (counter :> emptytypelist)]
    /\ counter' = counter + 1
    /\ op' = "declare"
    /\ reg' = name
    /\ target' = NoType
    /\ point' = counter
    /\ UNCHANGED <<bases, added, script, universe, chain, found, value, late, asserts, cmp>>

\* MPML_ADD that specialises the history of every declared registry
AddToAll(type, name, max) ==
    /\ counter < max
    /\ idx[name] # NotDeclared
    /\ history' = [n \in DOMAIN history |->
                      IF idx[n] # NotDeclared /\ idx[n] < counter
                      THEN (counter :> push_back(type, mpml_read(n, counter - 1))) @@ history[n]
                      ELSE history[n]]
    /\ added' = [added EXCEPT ![name] = Append(@, type)]
    /\ counter' = counter + 1
    /\ op' = "add"
    /\ reg' = name
    /\ target' = type
    /\ point' = counter
    /\ UNCHANGED <<bases, idx, universe, chain, found, value, late, asserts, cmp>>

\* MPML_ADD(_type, _name)
Add(type, name, max) ==
    /\ counter < max
    /\ idx[name] # NotDeclared
    /\ history' = [history EXCEPT ![name] =
                      (counter :> push_back(type, mpml_read(name, counter - 1))) @@ @]
    /\ added' = [added EXCEPT ![name] = Append(@, type)]
    /\ counter' = counter + 1
    /\ op' = "add"
    /\ reg' = name
    /\ target' = type
    /\ point' = counter
    /\ UNCHANGED <<bases, idx, universe, chain, found, value, late, asserts, cmp>>

\* an MPML_ADD of any declared class
AddAny(name, max) ==
    /\ script = <<>>
    /\ \E type \in Classes : Add(type, name, max)
    /\ UNCHANGED script

\* the next MPML_ADD line of the translation unit
AddNext(name, max) ==
    /\ script # <<>>
    /\ Add(Head(script), name, max)
    /\ script' = Tail(script)

\* using X = MPML_TYPES(_name);
Types(name, max) ==
    /\ counter < max
    /\ idx[name] # NotDeclared
    /\ universe' = MPML_TYPES(name, counter)
    /\ counter' = counter + 1
    /\ op' = "types"
    /\ reg' = name
    /\ target' = NoType
    /\ point' = counter - 1
    /\ UNCHANGED <<bases, idx, history, added, script, chain, found, value, late, asserts, cmp>>

\* MPML_CONTAINS(_type, _name)
Contains(type, name, max) ==
    /\ counter < max
    /\ idx[name] # NotDeclared
    /\ universe' = MPML_TYPES(name, counter)
    /\ found' = contains_v(type, MPML_TYPES(name, counter))
    /\ counter' = counter + 1
    /\ op' = "contains"
    /\ reg' = name
    /\ target' = type
    /\ point' = counter - 1
    /\ UNCHANGED <<bases, idx, history, added, script, chain, value, late, asserts, cmp>>

\* get_ancestors_t<TYPE, MPML_TYPES(_name)>
Ancestors(type, name, max) ==
    /\ counter < max
    /\ idx[name] # NotDeclared
    /\ universe' = MPML_TYPES(name, counter)
    /\ chain' = get_ancestors(type, MPML_TYPES(name, counter))
    /\ counter' = counter + 1
    /\ op' = "ancestors"
    /\ reg' = name
    /\ target' = type
    /\ point' = counter - 1
    /\ UNCHANGED <<bases, idx, history, added, script, found, value, late, asserts, cmp>>

\* _name##_mpml_read##_t<IDX> named directly, at a point __COUNTER__ has
\* already handed out. Below the point of MPML_DECLARE the false branch of
\* conditional_t is selected, but naming _mpml_read_t<IDX - 1> as the other
\* branch instantiates it all the same; the walk passes point 0 and the
\* build stops on the instantiation depth.
Read(name, IDX) ==
    /\ idx[name] # NotDeclared
    /\ IDX \in 0..(counter - 1)
    /\ universe' = mpml_read(name, IDX)
    /\ op' = "read"
    /\ reg' = name
    /\ target' = NoType
    /\ point' = IDX
    /\ UNCHANGED <<bases, counter, idx, history, added, script, chain, found, value, late, asserts, cmp>>

\* the latest point at which registry name has an entry
LatestPoint(name) ==
    CHOOSE q \in DOMAIN history[name] : \A r \in DOMAIN history[name] : r <= q

\* _mpml_history<IDX> has an explicit specialisation
is_specialised(name, IDX) == is_defined_v(name, IDX) \/ <<name, IDX>> \in late

\* INTERNAL_MPML_ADD(_type, _name, _idx) written with a point that is not
\* after the latest entry of the registry (with a fresh __COUNTER__ value it
\* is Add). The macro compares _idx with nothing:
\*   - a second specialisation of _mpml_history<_idx> is a redefinition;
\*   - at or below the point of MPML_DECLARE, _mpml_read_t<_idx - 1> walks
\*     past point 0 and the build fails;
\*   - between two entries, _mpml_read<_idx> has already been instantiated
\*     without the entry by the walk of the next MPML_ADD, so the
\*     specialisation comes after a use that needed it: ill-formed, no
\*     diagnostic required. The build may refuse it, accept it and let
\*     readers see it, or accept it and keep the instantiated readers.
InternalAdd(type, name, p) ==
    /\ idx[name] # NotDeclared
    /\ p \in 0..(counter - 1)
    /\ p <= LatestPoint(name)
    /\ op' = "internal_add"
    /\ reg' = name
    /\ target' = type
    /\ point' = p
    /\ \/ /\ is_specialised(name, p)
          /\ value' = "redefinition"
          /\ UNCHANGED <<history, late>>
       \/ /\ ~is_specialised(name, p)
          /\ p < idx[name]
          /\ value' = "instantiation depth"
          /\ UNCHANGED <<history, late>>
       \/ /\ ~is_specialised(name, p)
          /\ p > idx[name]
          /\ \/ /\ value' = "specialization after instantiation"
                /\ UNCHANGED <<history, late>>
             \/ /\ value' = "accepted"
                /\ history' = [history EXCEPT ![name] =
                                  (p :> push_back(type, mpml_read(name, p - 1))) @@ @]
                /\ UNCHANGED late
             \/ /\ value' = "accepted"
                /\ late' = late \cup {<<name, p>>}
                /\ UNCHANGED history
    /\ UNCHANGED <<bases, counter, idx, added, script, universe, chain, found, asserts, cmp>>

----------------------------------------------------------------------------
(* Spec: one registry, any hierarchy over SmallClasses, any order of       *)
(* MPML_ADD and get_ancestors queries.                                     *)

Init == \E b \in Hierarchies : InitWith(b, <<>>)

Next ==
    \/ Declare("REG_TYPES", MaxPoint)
    \/ AddAny("REG_TYPES", MaxPoint)
    \/ \E type \in Classes : Ancestors(type, "REG_TYPES", MaxPoint)

Spec == Init /\ [][Next]_vars

(* SpecDoc: the documented hierarchy with the MPML_ADD lines of the example *)
(* or of the embedded unit test, queried for D, K and W at any point.       *)

InitDoc == \E s \in {ExampleAdds, UnitTestAdds} : InitWith(DocBases, s)

NextDoc ==
    \/ Declare("MPML_TEST_TL", MaxDocPoint)
    \/ AddNext("MPML_TEST_TL", MaxDocPoint)
    \/ /\ script = <<>>
       /\ \E type \in {"D", "K", "W"} : Ancestors(type, "MPML_TEST_TL", MaxDocPoint)
    \/ /\ script = <<>>
       /\ \E type \in {"Z", "ZZ"} : Contains(type, "MPML_TEST_TL", MaxDocPoint)

SpecDoc == InitDoc /\ [][NextDoc]_vars

(* SpecReg: two registries sharing __COUNTER__, with MPML_ADD, MPML_TYPES   *)
(* and MPML_CONTAINS in any order.                                          *)

TwoClasses == [c \in {"H", "I"} |-> IF c = "I" THEN {"H"} ELSE {}]

InitReg == InitWith(TwoClasses, <<>>)

NextReg ==
    \E name \in {"REG_TYPES", "MPML_TEST_TL"} :
        \/ Declare(name, MaxRegPoint)
        \/ AddAny(name, MaxRegPoint)
        \/ Types(name, MaxRegPoint)
        \/ \E type \in Classes : Contains(type, name, MaxRegPoint)

SpecReg == InitReg /\ [][NextReg]_vars

----------------------------------------------------------------------------
(* SpecPoints: two registries whose points interleave, with the reader and *)
(* INTERNAL_MPML_ADD used directly at points already handed out.           *)

InitPoints == InitWith(TwoClasses, <<>>)

NextPoints ==
    \E name \in {"REG_TYPES", "MPML_TEST_TL"} :
        \/ Declare(name, MaxDirectPoint)
        \/ AddAny(name, MaxDirectPoint)
        \/ Types(name, MaxDirectPoint)
        \/ \E IDX \in 0..MaxDirectPoint : Read(name, IDX)
        \/ \E type \in Classes, p \in 0..MaxDirectPoint : InternalAdd(type, name, p)

SpecPoints == InitPoints /\ [][NextPoints]_vars

----------------------------------------------------------------------------
(* SpecSeq: the typelist metafunctions applied to every typelist of up to  *)
(* MaxLen types and to the typelists of the unit tests.                    *)

Tokens == {"A", "B", "C"}

RECURSIVE Typelists(_)
Typelists(n) ==
    IF n = 0 THEN {emptytypelist}
    ELSE Typelists(n - 1) \cup
         {push_back(t, s) : t \in Tokens, s \in {x \in Typelists(n - 1) : Len(x) = n - 1}}

LongTypelist == <<"A", "B", "C", "A", "A", "B", "D", "D", "D", "A", "B">>

TestTypelists ==
    { LongTypelist,
      <<"A", "C", "D", "D", "Z", "C", "A", "D", "C">>,
      <<"A", "C", "D", "D", "D", "C", "A", "D", "C">> }

InitSeq ==
    /\ bases = DocBases
    /\ script = <<>>
    /\ counter = 0
    /\ idx = [n \in {"REG_TYPES", "MPML_TEST_TL"} |-> NotDeclared]
    /\ history = [n \in {"REG_TYPES", "MPML_TEST_TL"} |-> NoHistory]
    /\ added = [n \in {"REG_TYPES", "MPML_TEST_TL"} |-> <<>>]
    /\ op = "none"
    /\ reg = NoType
    /\ target = NoType
    /\ universe \in Typelists(MaxLen) \cup TestTypelists
    /\ chain = emptytypelist
    /\ found = FALSE
    /\ point = 0
    /\ value = 0
    /\ late = {}
    /\ asserts = {}
    /\ cmp = {}

\* find_v<TYPE, TYPELIST, N>
Find(TYPE, N) ==
    /\ op' = "find"
    /\ target' = TYPE
    /\ point' = N
    /\ value' = find(TYPE, universe, N)
    /\ asserts' = {}
    /\ UNCHANGED <<bases, counter, idx, history, added, script, reg, universe, chain,
                   found, late, cmp>>

\* contains_v<TYPE, TYPELIST>
ContainsV(TYPE) ==
    /\ op' = "contains_v"
    /\ target' = TYPE
    /\ point' = 0
    /\ value' = contains_v(TYPE, universe)
    /\ asserts' = {}
    /\ UNCHANGED <<bases, counter, idx, history, added, script, reg, universe, chain,
                   found, late, cmp>>

\* pop_back_t<TYPELIST>
PopBack ==
    /\ op' = "pop_back"
    /\ target' = NoType
    /\ point' = 0
    /\ value' = pop_back(universe)
    /\ asserts' = {}
    /\ UNCHANGED <<bases, counter, idx, history, added, script, reg, universe, chain,
                   found, late, cmp>>

\* remove_duplicates_t<TYPELIST>
RemoveDuplicates ==
    /\ op' = "remove_duplicates"
    /\ target' = NoType
    /\ point' = 0
    /\ value' = remove_duplicates(universe)
    /\ asserts' = {}
    /\ UNCHANGED <<bases, counter, idx, history, added, script, reg, universe, chain,
                   found, late, cmp>>

\* at_t<IDX, TYPELIST>
At(IDX) ==
    /\ op' = "at"
    /\ target' = NoType
    /\ point' = IDX
    /\ value' = at(IDX, universe)
    /\ asserts' = at_asserts(IDX, universe)
    /\ UNCHANGED <<bases, counter, idx, history, added, script, reg, universe, chain,
                   found, late, cmp>>

\* front_t<TYPELIST>
Front ==
    /\ op' = "front"
    /\ target' = NoType
    /\ point' = 0
    /\ value' = front(universe)
    /\ asserts' = at_asserts(0, universe)
    /\ UNCHANGED <<bases, counter, idx, history, added, script, reg, universe, chain,
                   found, late, cmp>>

\* back_t<TYPELIST>
Back ==
    /\ op' = "back"
    /\ target' = NoType
    /\ point' = back_index(universe)
    /\ value' = back(universe)
    /\ asserts' = at_asserts(back_index(universe), universe)
    /\ UNCHANGED <<bases, counter, idx, history, added, script, reg, universe, chain,
                   found, late, cmp>>

NextSeq ==
    \/ \E TYPE \in Tokens \cup {"Z"}, N \in 0..MaxLen : Find(TYPE, N)
    \/ \E TYPE \in Tokens \cup {"Z"} : Find(TYPE, Len(universe))
    \/ \E TYPE \in Tokens \cup {"Z"} : ContainsV(TYPE)
    \/ PopBack
    \/ RemoveDuplicates
    \/ \E IDX \in 0..(MaxLen + 1) : At(IDX)
    \/ Front
    \/ Back

SpecSeq == InitSeq /\ [][NextSeq]_vars

----------------------------------------------------------------------------
(* SpecIter: typelist_iterator<TYPELIST, PRED>::step(&instance) over every   *)
(* typelist of SpecSeq. `universe` is TYPELIST, `point` is INDEX, `target`   *)
(* the instance passed as _p and `value` the calls of PRED::callback so far. *)
(* step calls itself synchronously, so a started iteration always goes on.   *)

Instances == {"d_instance", "k_instance"}

\* execute: typelist_iterator<TYPELIST, PRED>::step(&instance), INDEX = 0
IterCall(instance) ==
    /\ op \in {"none", "done"}
    /\ op' = "step"
    /\ target' = instance
    /\ point' = 0
    /\ value' = <<>>
    /\ asserts' = {}
    /\ UNCHANGED <<bases, counter, idx, history, added, script, reg, universe, chain,
                   found, late, cmp>>

\* step that moves on before it calls back
StepAfterIncrement ==
    /\ op = "step"
    /\ point # Len(universe)
    /\ value' = Append(value, <<at(point + 1, universe), target>>)
    /\ point' = point + 1
    /\ UNCHANGED <<bases, counter, idx, history, added, script, op, reg, target, universe,
                   chain, found, late, asserts, cmp>>

\* typelist_iterator<TYPELIST, PRED, LENGTH, INDEX>::step: the callback with
\* at_t<INDEX, TYPELIST>, then step of INDEX + 1
Step ==
    /\ op = "step"
    /\ point # Len(universe)
    /\ value' = Append(value, <<at(point, universe), target>>)
    /\ point' = point + 1
    /\ UNCHANGED <<bases, counter, idx, history, added, script, op, reg, target, universe,
                   chain, found, late, asserts, cmp>>

\* typelist_iterator<TYPELIST, PRED, LENGTH, LENGTH>::step: nothing, and return
StepEnd ==
    /\ op = "step"
    /\ point = Len(universe)
    /\ op' = "done"
    /\ UNCHANGED <<bases, counter, idx, history, added, script, reg, target, universe,
                   chain, found, point, value, late, asserts, cmp>>

NextIter ==
    \/ \E instance \in Instances : IterCall(instance)
    \/ Step
    \/ StepEnd

SpecIter == InitSeq /\ [][NextIter]_vars /\ WF_vars(NextIter)

----------------------------------------------------------------------------
(* SpecCmp: get_the_best and the rounds of get_ancestors under every        *)
(* comparator over the classes A, B, C: every relation, the cyclic and the   *)
(* intransitive ones included.                                               *)

InitCmp ==
    /\ bases = DocBases
    /\ script = <<>>
    /\ counter = 0
    /\ idx = [n \in {"REG_TYPES", "MPML_TEST_TL"} |-> NotDeclared]
    /\ history = [n \in {"REG_TYPES", "MPML_TEST_TL"} |-> NoHistory]
    /\ added = [n \in {"REG_TYPES", "MPML_TEST_TL"} |-> <<>>]
    /\ op = "none"
    /\ reg = NoType
    /\ target = NoType
    /\ universe \in Typelists(MaxCmpLen)
    /\ chain = emptytypelist
    /\ found = FALSE
    /\ point = 0
    /\ value = 0
    /\ late = {}
    /\ asserts = {}
    /\ cmp \in SUBSET (Tokens \X Tokens)

\* the ::value of CMP<T1, T2>
CmpValue == [p \in Classes \X Classes |-> p \in cmp]

\* get_the_best_t<TYPELIST, CMP>; no specialisation takes the empty typelist
GetTheBest ==
    /\ universe # emptytypelist
    /\ op' = "get_the_best"
    /\ target' = NoType
    /\ value' = get_the_best(universe, CmpValue)
    /\ UNCHANGED <<bases, counter, idx, history, added, script, reg, universe, chain,
                   found, point, late, asserts, cmp>>

\* the rounds of get_ancestors for TYPE with CMP as its predicate
AncestorsWith(TYPE) ==
    /\ op' = "ancestors_with"
    /\ target' = TYPE
    /\ value' = get_ancestors_with(TYPE, universe, CmpValue)
    /\ UNCHANGED <<bases, counter, idx, history, added, script, reg, universe, chain,
                   found, point, late, asserts, cmp>>

NextCmp ==
    \/ GetTheBest
    \/ \E TYPE \in Tokens : AncestorsWith(TYPE)

SpecCmp == InitCmp /\ [][NextCmp]_vars

----------------------------------------------------------------------------
(* Notions the properties are stated with *)

Elems(s) == {s[i] : i \in DOMAIN s}

StrictAncestor(X, Y) == X # Y /\ is_base_of(X, Y)

Incomparable(X, Y) == X # Y /\ ~is_base_of(X, Y) /\ ~is_base_of(Y, X)

IsCandidate(u) == StrictAncestor(u, target)

\* the candidate sequence S of the last query: the strict ancestors of the
\* target in the universe, in universe order, with their repetitions
Candidates(U) == SelectSeq(U, IsCandidate)

FirstPos(s, x) == CHOOSE i \in DOMAIN s : s[i] = x /\ \A j \in 1..(i - 1) : s[j] # x

LastPos(s, x) == CHOOSE i \in DOMAIN s : s[i] = x /\ \A j \in (i + 1)..Len(s) : s[j] # x

PosIn(s, x) == CHOOSE i \in DOMAIN s : s[i] = x

InsertAt(s, p, x) == SubSeq(s, 1, p) \o <<x>> \o SubSeq(s, p + 1, Len(s))

Reorderings(s) ==
    { [i \in DOMAIN s |-> s[f[i]]] :
        f \in { g \in [DOMAIN s -> DOMAIN s] : \A i, j \in DOMAIN s : g[i] = g[j] => i = j } }

Queried == op = "ancestors"

----------------------------------------------------------------------------
(* Properties *)

C2_GeneralToSpecific ==
    Queried =>
        \A i, j \in DOMAIN chain : StrictAncestor(chain[i], chain[j]) => i < j

\* a query whose universe lists a descendant before its ancestor
C2_Witness ==
    /\ Queried
    /\ \E i, j \in DOMAIN universe :
          /\ i < j
          /\ IsCandidate(universe[i]) /\ IsCandidate(universe[j])
          /\ StrictAncestor(universe[j], universe[i])
    /\ Len(chain) >= 2

C5_FirstAppearanceFirst ==
    Queried =>
        \A X, Y \in Elems(chain) :
            (Incomparable(X, Y)
             /\ FirstPos(Candidates(universe), X) < FirstPos(Candidates(universe), Y))
                => PosIn(chain, X) < PosIn(chain, Y)

\* C5 amended: of two incomparable candidates X and Y, Y comes first in the
\* chain when its last occurrence in the candidate sequence is after the last
\* occurrence of X and no descendant of X occurs after it.
C5_LastAppearanceFirst ==
    Queried =>
        LET S == Candidates(universe)
        IN  \A X, Y \in Elems(S) :
                (/\ Incomparable(X, Y)
                 /\ LastPos(S, X) < LastPos(S, Y)
                 /\ \A k \in (LastPos(S, Y) + 1)..Len(S) : ~StrictAncestor(X, S[k]))
                    => /\ X \in Elems(chain) /\ Y \in Elems(chain)
                       /\ PosIn(chain, Y) < PosIn(chain, X)

\* a query with two incomparable candidates, where the one that appears first
\* comes second in the chain
C5_Witness ==
    /\ Queried
    /\ LET S == Candidates(universe)
       IN  \E X, Y \in Elems(S) :
              /\ Incomparable(X, Y)
              /\ FirstPos(S, X) < FirstPos(S, Y)
              /\ LastPos(S, X) < LastPos(S, Y)
              /\ X \in Elems(chain) /\ Y \in Elems(chain)
              /\ PosIn(chain, Y) < PosIn(chain, X)

C7_UnrelatedTokensIgnored ==
    Queried =>
        \A p \in 0..Len(universe) : \A x \in Classes :
            ~IsCandidate(x) =>
                /\ Candidates(InsertAt(universe, p, x)) = Candidates(universe)
                /\ get_ancestors(target, InsertAt(universe, p, x)) = chain

\* a query whose universe has a class that is no ancestor between two
\* ancestors of the target
C7_Witness ==
    /\ Queried
    /\ \E i, j, k \in DOMAIN universe :
          /\ i < j /\ j < k
          /\ IsCandidate(universe[i]) /\ ~IsCandidate(universe[j])
          /\ IsCandidate(universe[k])
    /\ Len(chain) >= 2

\* C8 as stated: every permutation of the registered classes gives the same
\* chain.
C8_RegistryOrderDoesNotMatter ==
    Queried =>
        \A U \in Reorderings(universe) : get_ancestors(target, U) = chain

\* C9 as stated: one more MPML_ADD of a class that is already registered
\* leaves the chain of every target unchanged.
C9_DuplicatesDoNotMatter ==
    Queried =>
        \A x \in Elems(universe) :
            get_ancestors(target, push_back(x, universe)) = chain

\* C10: what MPML_TYPES yields at a call site is the sequence of the types
\* passed to MPML_ADD for that registry before it, in MPML_ADD order and with
\* the repeated types repeated.
C10_TypesIsAddsSoFar ==
    op \in {"types", "contains", "ancestors"} => universe = added[reg]

\* MPML_TYPES after a repeated MPML_ADD, with points of the counter used by
\* other macros between the MPML_ADD lines, while the other registry holds
\* something else
C10_Witness ==
    /\ op = "types"
    /\ Len(universe) >= 2
    /\ \E i, j \in DOMAIN universe : i < j /\ universe[i] = universe[j]
    /\ \E p \in idx[reg]..(counter - 2) : p \notin DOMAIN history[reg]
    /\ \E n \in DOMAIN added : n # reg /\ added[n] # <<>> /\ added[n] # added[reg]

\* the greatest point <= p at which registry n has a history entry
GreatestDefined(n, p) ==
    CHOOSE q \in DOMAIN history[n] :
        q <= p /\ \A r \in DOMAIN history[n] : r <= p => r <= q

IsPrefix(s, t) == Len(s) <= Len(t) /\ SubSeq(t, 1, Len(s)) = s

Declared == {n \in DOMAIN idx : idx[n] # NotDeclared}

\* C11: points need not be contiguous: at every point p at or after the
\* declared point, _mpml_read gives the entry stored at the greatest defined
\* point <= p, and the walk back ends at the declared point at the latest.
C11_ResolveNearestPreceding ==
    /\ \A n \in Declared : \A p \in idx[n]..counter :
          /\ mpml_read(n, p) # IllFormed
          /\ mpml_read(n, p) = history[n][GreatestDefined(n, p)]
    /\ op \in {"types", "contains"} =>
          /\ GreatestDefined(reg, point) >= idx[reg]
          /\ universe = history[reg][GreatestDefined(reg, point)]

\* MPML_TYPES read two or more points after the latest MPML_ADD of its registry
C11_Witness ==
    /\ op = "types"
    /\ universe # <<>>
    /\ point - GreatestDefined(reg, point) >= 2

\* C12: the entry at the declared point is empty, what is read at an earlier
\* point is a prefix of what is read at a later point, and the entry of each
\* MPML_ADD is what was read just before it with exactly one type appended.
C12_AppendOnly ==
    \A n \in Declared :
        /\ history[n][idx[n]] = emptytypelist
        /\ \A p1, p2 \in idx[n]..counter :
              p1 < p2 => IsPrefix(mpml_read(n, p1), mpml_read(n, p2))
        /\ \A q \in DOMAIN history[n] :
              q > idx[n] =>
                 /\ Len(history[n][q]) = Len(mpml_read(n, q - 1)) + 1
                 /\ SubSeq(history[n][q], 1, Len(history[n][q]) - 1) = mpml_read(n, q - 1)

\* an MPML_ADD onto a registry that is not empty, after a gap in its points
C12_Witness ==
    /\ op = "add"
    /\ Len(history[reg][point]) >= 2
    /\ history[reg][point][1] # history[reg][point][2]
    /\ (point - 1) \notin DOMAIN history[reg]

\* C15: MPML_CONTAINS(type, name) is true exactly when an MPML_ADD(type, name)
\* of that type into that registry came earlier in the translation unit.
C15_ContainsIffAddedEarlier ==
    op = "contains" => (found <=> target \in Elems(added[reg]))

\* MPML_CONTAINS finds a type that was not the first one added to its
\* registry, while another declared registry holds other types only
C15_Witness ==
    /\ op = "contains"
    /\ found
    /\ Len(added[reg]) >= 2
    /\ added[reg][1] # target
    /\ \E n \in Declared : n # reg /\ added[n] # <<>> /\ target \notin Elems(added[n])

\* a step of INTERNAL_MPML_ADD at a point not after the registry's latest entry
NonIncreasingAddStep ==
    /\ op' = "internal_add"
    /\ counter' = counter
    /\ point' <= LatestPoint(reg')

\* C13: an add whose point is not strictly greater than every defined point
\* of the registry is rejected with an error and leaves the registry as it
\* was: the entries, and so what is read at every point, are the same before
\* and after.
C13_NonIncreasingAddRejected ==
    [][NonIncreasingAddStep =>
          /\ value' # "accepted"
          /\ history' = history
          /\ late' = late]_vars

\* C14: reading a registry at a point before the point of its MPML_DECLARE
\* yields the empty typelist and is not an error.
C14_ReadBeforeDeclareIsEmpty ==
    (op = "read" /\ point < idx[reg]) =>
        /\ universe # IllFormed
        /\ universe = emptytypelist

\* the types of s at the positions in I, in the order of s
Pick(s, I) ==
    [k \in 1..Cardinality(I) |->
        s[CHOOSE i \in I : Cardinality({j \in I : j <= i}) = k]]

FirstOccurrences(s) == {i \in DOMAIN s : \A j \in 1..(i - 1) : s[j] # s[i]}

LastOccurrences(s) == {i \in DOMAIN s : \A j \in (i + 1)..Len(s) : s[j] # s[i]}

AllButLast(s) == IF s = <<>> THEN <<>> ELSE SubSeq(s, 1, Len(s) - 1)

\* C16: pop_back yields the typelist without its last type, the others in
\* their order, so pop_back undoes push_back; on the empty typelist it yields
\* the empty typelist.
C16_PopBackRemovesLast ==
    op = "pop_back" =>
        /\ value = AllButLast(universe)
        /\ \A t \in Tokens : pop_back(push_back(t, universe)) = universe

C19_NotFoundEncodesCount ==
    (op = "find" /\ point = Len(universe) /\ target \notin Elems(universe)) =>
        value = -(Len(universe) + 1)

\* C19 amended: for a type that is not in the typelist, find<TYPE, TYPELIST, N>
\* is size - (N + 1); with N left at its default, the size, that is -1 for
\* every length, so the value says nothing about how many types were scanned.
C19_NotFoundIsSizeMinusN ==
    (op = "find" /\ target \notin Elems(universe)) =>
        /\ value = Len(universe) - (point + 1)
        /\ point = Len(universe) => value = -1

\* find_v, N at its default, of a type missing from a typelist of 2 or more
C19_Witness ==
    /\ op = "find"
    /\ target \notin Elems(universe)
    /\ Len(universe) >= 2
    /\ point = Len(universe)
    /\ value = -1

\* C20: find_v is the 0-based position of the first occurrence of a type that
\* is in the typelist and -1 for a type that is not, whatever the length;
\* contains_v is true exactly when find_v is not -1, exactly when the type is
\* in the typelist.
C20_FindFirstIndexOrMinusOne ==
    /\ (op = "find" /\ point = Len(universe)) =>
          IF target \in Elems(universe)
          THEN value = FirstPos(universe, target) - 1
          ELSE value = -1
    /\ op = "contains_v" =>
          /\ value <=> (find_v(target, universe) # -1)
          /\ value <=> (target \in Elems(universe))

\* find_v of a type that occurs twice and not in front
C20_Witness ==
    /\ op = "find"
    /\ point = Len(universe)
    /\ target \in Elems(universe)
    /\ value >= 1
    /\ LastPos(universe, target) > value + 1

\* C21 as stated: at yields the type at position IDX when IDX < size and fails
\* with the "Out of bounds" assertion whenever IDX >= size, the empty typelist
\* and IDX = 0 included.
C21_OutOfBoundsWheneverPastEnd ==
    op = "at" =>
        IF point < Len(universe)
        THEN asserts = {} /\ value = universe[point + 1]
        ELSE OutOfBounds \in asserts

\* C21 amended: at yields the type at position IDX when IDX < size; whenever
\* IDX >= size it yields no type and an assertion fails: "Out of bounds",
\* except for the empty typelist at IDX = 0, which fails with "Empty typelist"
\* only; at IDX = size the "Empty typelist" assertion fails as well.
C21_AtOrAssertionFails ==
    op = "at" =>
        IF point < Len(universe)
        THEN asserts = {} /\ value = universe[point + 1]
        ELSE /\ value \in {EmptyTypelist, OutOfBounds}
             /\ asserts # {}
             /\ OutOfBounds \in asserts <=> ~(universe = emptytypelist /\ point = 0)
             /\ EmptyTypelist \in asserts <=> point = Len(universe)

\* at one past the end of a typelist that is not empty
C21_Witness ==
    /\ op = "at"
    /\ universe # emptytypelist
    /\ point = Len(universe)
    /\ asserts = {EmptyTypelist, OutOfBounds}

\* C22: front yields the first and back the last type of a typelist that is
\* not empty; on the empty typelist both fail with the "Empty typelist"
\* assertion and not with "Out of bounds".
C22_FrontBackEmptyTypelistError ==
    op \in {"front", "back"} =>
        IF universe = emptytypelist
        THEN asserts = {EmptyTypelist}
        ELSE /\ asserts = {}
             /\ value = (IF op = "front" THEN universe[1] ELSE universe[Len(universe)])

\* the callbacks of a whole iteration: one per position, in order, each with
\* the type at its position and the instance the iteration was called with
CallsUpTo(n) == [k \in 1..n |-> <<universe[k], target>>]

\* C23: step over a typelist of size n calls the callback exactly n times,
\* once per position 0..n-1 in increasing order, each time with the type at
\* that position and the same instance, and then returns; for the empty
\* typelist the callback is never called.
C23_EachPositionOnceInOrder ==
    /\ [](op \in {"step", "done"} =>
             /\ point <= Len(universe)
             /\ value = CallsUpTo(point))
    /\ [](op = "done" => value = CallsUpTo(Len(universe)))
    /\ (op = "step") ~> (op = "done")

\* an iteration over 3 or more types has returned
C23_Witness ==
    /\ op = "done"
    /\ Len(universe) >= 3
    /\ Len(value) = Len(universe)
    /\ value[3] = <<universe[3], target>>

\* C24: remove_duplicates is idempotent, applying it to its own result changes
\* nothing, and its result never holds a type twice.
C24_RemoveDuplicatesIdempotent ==
    op = "remove_duplicates" =>
        /\ remove_duplicates(value) = value
        /\ \A i, j \in DOMAIN value : value[i] = value[j] => i = j

\* remove_duplicates has dropped types and kept 2 or more
C24_Witness ==
    /\ op = "remove_duplicates"
    /\ Len(value) >= 2
    /\ Len(value) + 2 <= Len(universe)

\* CMP of details::get_ancestors as get_the_best takes it
IsBaseOfCmp == [p \in Classes \X Classes |-> is_base_of(p[1], p[2])]

\* SRCLIST of round k of the last query: the candidates without the classes
\* the rounds before k have moved to the chain
RoundSource(k) ==
    LET NotYetChosen(x) == \A i \in 1..(k - 1) : chain[i] # x
    IN  SelectSeq(Candidates(universe), NotYetChosen)

\* C25: in every round of details::get_ancestors the class get_the_best
\* picks with is_base_of as comparator is a root of what is left: no other
\* class still in SRCLIST is a strict ancestor of it, whatever the order and
\* the repetitions of SRCLIST.
C25_EachRoundPicksARoot ==
    Queried =>
        \A k \in DOMAIN chain :
            /\ chain[k] = get_the_best(RoundSource(k), IsBaseOfCmp)
            /\ chain[k] \in Elems(RoundSource(k))
            /\ \A x \in Elems(RoundSource(k)) : ~StrictAncestor(x, chain[k])

\* a query of 2 rounds whose candidates start with a class that has an
\* ancestor and a repetition later in the universe
C25_Witness ==
    /\ Queried
    /\ Len(chain) >= 2
    /\ \E i, j \in DOMAIN Candidates(universe) :
          /\ 1 < i /\ 1 < j
          /\ StrictAncestor(Candidates(universe)[i], Candidates(universe)[1])
          /\ Candidates(universe)[j] = Candidates(universe)[1]

\* the candidates of the last ancestors_with: the types of the universe other
\* than the target that CMP relates to the target, as a set
CmpCandidates == {u \in Elems(universe) : u # target /\ <<u, target>> \in cmp}

\* C26: the rounds end for every universe and every predicate, cyclic and
\* inconsistent ones included: what get_the_best picks is a type of its
\* typelist, a round removes every occurrence of it, and the chain holds
\* every distinct candidate exactly once, one per round.
C26_EveryPredicateTerminates ==
    /\ op = "get_the_best" => value \in Elems(universe)
    /\ op = "ancestors_with" =>
          /\ Elems(value) = CmpCandidates
          /\ Len(value) = Cardinality(CmpCandidates)

\* rounds under a cyclic predicate, over candidates with a repetition
C26_Witness ==
    /\ op = "ancestors_with"
    /\ \E x, y \in CmpCandidates : x # y /\ <<x, y>> \in cmp /\ <<y, x>> \in cmp
    /\ Len(universe) > Cardinality(Elems(universe))
    /\ Len(value) = 2

Last(s) == s[Len(s)]

\* C27: what get_the_best picks with is_base_of is the last type of its
\* typelist or an ancestor of that last type; so the first class of every
\* chain is the last candidate or one of its ancestors, and among roots that
\* are incomparable the right end of the candidates decides.
C27_BestIsLastOrItsAncestor ==
    Queried =>
        /\ \A k \in DOMAIN chain :
              \/ chain[k] = Last(RoundSource(k))
              \/ StrictAncestor(chain[k], Last(RoundSource(k)))
        /\ chain # emptytypelist =>
              is_base_of(chain[1], Last(Candidates(universe)))

\* a query whose first and last candidate are incomparable roots
C27_Witness ==
    /\ Queried
    /\ Len(chain) >= 2
    /\ Incomparable(Candidates(universe)[1], Last(Candidates(universe)))
    /\ \A x \in Elems(Candidates(universe)) :
          ~StrictAncestor(x, Candidates(universe)[1])
    /\ chain[1] = Last(Candidates(universe))

\* the irreflexive part of is_base_of as a comparator
StrictBaseOfCmp == [p \in Classes \X Classes |-> p[1] # p[2] /\ is_base_of(p[1], p[2])]

\* C28: the chain does not depend on the predicate being reflexive: the
\* rounds run with is_base_of, true for a class and itself, and run with its
\* irreflexive part give the chain of get_ancestors alike, also when the
\* universe holds the target and repeated classes.
C28_ReflexivityDoesNotMatter ==
    Queried =>
        /\ get_ancestors_with(target, universe, IsBaseOfCmp) = chain
        /\ get_ancestors_with(target, universe, StrictBaseOfCmp) = chain

\* a query whose universe holds the target twice, around an ancestor of it
C28_Witness ==
    /\ Queried
    /\ chain # emptytypelist
    /\ \E i, j, k \in DOMAIN universe :
          /\ i < j /\ j < k
          /\ universe[i] = target
          /\ IsCandidate(universe[j])
          /\ universe[k] = target

\* C29: the registries share __COUNTER__ and nothing else: a macro used on
\* one registry leaves what is read from the other registry unchanged at
\* every point, and each registry reads as exactly the types added under its
\* own name.
C29_RegistriesIsolated ==
    /\ [][\A n \in Declared :
             n # reg' =>
                /\ history'[n] = history[n]
                /\ \A p \in idx[n]..MaxRegPoint : mpml_read(n, p)' = mpml_read(n, p)]_vars
    /\ [](\A n \in Declared : mpml_read(n, counter - 1) = added[n])

\* an MPML_ADD into one registry while the other one, declared at another
\* point, holds other types
C29_Witness ==
    /\ op = "add"
    /\ \E n \in Declared :
          /\ n # reg
          /\ idx[n] # idx[reg]
          /\ added[n] # <<>>
          /\ Elems(added[n]) \cap Elems(added[reg]) = {}
          /\ mpml_read(n, counter - 1) = added[n]

\* C30: the two versions agree up to the target: for a universe that holds
\* the target, anywhere and any number of times, the chain of version 1.0 is
\* the chain of version 1.1 followed by the target; for a universe without
\* the target the two chains are the same.
C30_V10IsV11ThenTarget ==
    Queried =>
        get_ancestors_v10(target, universe) =
            (IF target \in Elems(universe) THEN push_back(target, chain) ELSE chain)

\* a query whose universe holds the target between two incomparable ancestors
C30_Witness ==
    /\ Queried
    /\ Len(chain) = 2
    /\ \E i, j, k \in DOMAIN universe :
          /\ i < j /\ j < k
          /\ universe[j] = target
          /\ IsCandidate(universe[i]) /\ IsCandidate(universe[k])
          /\ Incomparable(universe[i], universe[k])
    /\ Len(get_ancestors_v10(target, universe)) = 3

====
